---- MODULE Spec2Model ----
(***************************************************************************)
(* Model of the Alibaba provider adapter (AlibabaInfoer) of cloudinfo:     *)
(* GetProducts / GetVirtualMachines / getOnDemandPrice / getPrice, the     *)
(* spot price retrieval GetCurrentPrices / getCurrentSpotPrices and        *)
(* HasShortLivedPriceInfo.  The provider (the SDK client behind            *)
(* ProcessCommonRequest) is the environment: every request is answered     *)
(* with a nondeterministically chosen response.                            *)
(***************************************************************************)
EXTENDS Integers, Sequences, FiniteSets, TLC

\* ------------------------------------------------------------------ bounds
\* largest number of instance types in a uniform catalog (two batches)
MaxVMs == 26
\* largest number of instance types in a catalog with varied types and zones
MaxCat == 2
\* largest number of single-item retries the provider lets fail in one fetch
MaxSkips == 1
\* how far the number of prices in a response may differ from the request
MaxDelta == 1
\* largest number of entries of a spot price history response
MaxEntries == 2

\* --------------------------------------------------------- program constants
\* len(instanceTypes) == 25
BatchSize == 25
\* float64(instanceType.InstanceBandwidthRx)/1024000
BandwidthUnit == 1024000

VARIABLES
    op,             \* the exported method that was called ("" before the call)
    service,        \* GetProducts: the service argument
    pc,             \* position of the call
    catalog,        \* provider: the instance types DescribeInstanceTypes returns
    zoneCfg,        \* provider: the zones DescribeZones returns
    vms,            \* GetVirtualMachines: vms / getOnDemandPrice: its argument
    index,          \* getOnDemandPrice: number of vms the loop has consumed
    instanceTypes,  \* getOnDemandPrice: the batch being collected / retried
    retryIdx,       \* getOnDemandPrice: i of the single-item retry loop (1-based)
    allPrices,      \* getOnDemandPrice: map instance type -> price
    skipped,        \* history: types whose single-item retry failed
    log,            \* history: the provider requests issued, in order
    resultNil,      \* the returned list is nil
    result,         \* the returned []types.VMInfo
    err,            \* the returned error
    shortLived,     \* the value HasShortLivedPriceInfo returned
    spotZones,      \* getCurrentSpotPrices: zones (DescribeZones response)
    zi,             \* getCurrentSpotPrices: position in zones (1-based)
    ti,             \* getCurrentSpotPrices: position in the zone's instance types
    priceInfo,      \* getCurrentSpotPrices: map instance type -> SpotPriceInfo
    history,        \* history: price-history responses received (zone, type, entries)
    prices          \* GetCurrentPrices: the returned map

vars == <<op, service, pc, catalog, zoneCfg, vms, index, instanceTypes,
          retryIdx, allPrices, skipped, log, resultNil, result, err, shortLived,
          spotZones, zi, ti, priceInfo, history, prices>>

demandVars == <<service, catalog, zoneCfg, vms, index, instanceTypes,
                retryIdx, allPrices, skipped, log, resultNil, result, err>>

spotVars == <<spotZones, zi, ti, priceInfo, history, prices>>

\* ----------------------------------------------------------------- helpers
SeqContains(s, x) == \E i \in 1..Len(s) : s[i] = x

\* errors: message, emperror context labels, message of the wrapped cause
NoErr == [msg |-> "", ctx |-> <<>>, cause |-> ""]

NewErr(m) == [msg |-> m, ctx |-> <<>>, cause |-> ""]

\* emperror.With(err, label)
With(e, label) == [e EXCEPT !.ctx = Append(@, label)]

\* emperror.Wrap(err, msg) / errors.Wrap(err, msg)
Wrap(e, m) == [msg |-> m, ctx |-> e.ctx, cause |-> e.msg]

\* hasLabel(ctx, s)
hasLabel(ctx, s) == \E i \in 1..Len(ctx) : ctx[i] = s

\* ------------------------------------------------- the provider's answers
\* InstanceBandwidthRx values a catalog entry may carry (kbit/s)
Bandwidths == {0, BandwidthUnit}

\* instance type families: "g" and "c" are known to the category map
Families == {"g", "x"}

\* ecs.InstanceType
InstanceType(id, bw, fam) ==
    [InstanceTypeId |-> id, InstanceBandwidthRx |-> bw, InstanceTypeFamily |-> fam,
     CpuCoreCount |-> 2, MemorySize |-> 4, GPUAmount |-> 0]

\* ecs.Zone: AvailableResources.ResourcesInfo[].InstanceTypes.SupportedInstanceType
\* and AvailableInstanceTypes.InstanceTypes
Zone(id, groups, avail) ==
    [ZoneId |-> id, ResourcesInfo |-> groups, AvailableInstanceTypes |-> avail]

\* catalogs of n like instance types, all offered by one zone in one group
UniformCatalogs ==
    {[types |-> [i \in 1..n |-> InstanceType(i, BandwidthUnit, "g")],
      zones |-> <<Zone(1, <<[i \in 1..n |-> i]>>, <<>>)>>] : n \in 0..MaxVMs}

\* the lists of supported instance types a resource-info group may carry
Groups(m) == {[i \in 1..k |-> i] : k \in 0..m}

\* small catalogs whose types differ in bandwidth, family and zone support;
\* zone 1 reports one or two resource-info groups, zone 2 one
VariedCatalogs ==
    UNION {
      {[types |-> [i \in 1..m |-> InstanceType(i, bw[i], fam[i])],
        zones |-> <<Zone(1, g1, <<>>), Zone(2, <<g2>>, <<>>)>>] :
          bw \in [1..m -> Bandwidths], fam \in [1..m -> Families],
          g1 \in {<<a>> : a \in Groups(m)} \cup {<<a, b>> : a, b \in Groups(m)},
          g2 \in {<<>>, [i \in 1..m |-> i]}}
      : m \in 1..MaxCat}

\* --------------------------------------------------------- network mapping
\* fmt.Sprintf("%.1f Gbit/s", float64(bw)/1024000): the number of tenths the
\* formatted string shows (rounded to one decimal)
FormatGbit(bw) == (bw * 10 + BandwidthUnit \div 2) \div BandwidthUnit

\* newAlibabaNetworkMapper().MapNetworkPerf(ntwPerf): tiers over (0, oo) in
\* Gbit/s: low (0,1), medium [1,5), high [5,10), extra [10,oo); a string
\* outside every range yields the mapping error and no tier
MapNetworkPerf(ntwPerf) ==
    IF ntwPerf <= 0 THEN [cat |-> "", err |-> NewErr("could not determine network performance")]
    ELSE IF ntwPerf < 10 THEN [cat |-> "low", err |-> NoErr]
    ELSE IF ntwPerf < 50 THEN [cat |-> "medium", err |-> NoErr]
    ELSE IF ntwPerf < 100 THEN [cat |-> "high", err |-> NoErr]
    ELSE [cat |-> "extra", err |-> NoErr]

\* a.mapCategory(instanceType.InstanceTypeId): the family decides the category
mapCategory(it) ==
    IF it.InstanceTypeFamily = "g" THEN [cat |-> "general", err |-> NoErr]
    ELSE IF it.InstanceTypeFamily = "c" THEN [cat |-> "compute", err |-> NoErr]
    ELSE [cat |-> "", err |-> NewErr("could not determine the category")]

\* cloudinfo.Attributes(cpu, memory, ntwPerfCat, category)
Attributes(cpu, mem, ntwPerfCat, category) ==
    [cpu |-> cpu, memory |-> mem, networkPerfTier |-> ntwPerfCat, category |-> category]

\* ------------------------------------------------------ GetVirtualMachines
\* lines 147-154: one append of the zone id per resource-info group of the
\* zone that lists the instance type
RECURSIVE GroupHits(_, _, _)
GroupHits(zoneId, groups, id) ==
    IF groups = <<>> THEN <<>>
    ELSE (IF SeqContains(Head(groups), id) THEN <<zoneId>> ELSE <<>>)
         \o GroupHits(zoneId, Tail(groups), id)

\* lines 145-155: the zones list of one instance type
RECURSIVE ZonesOf(_, _)
ZonesOf(id, availableZones) ==
    IF availableZones = <<>> THEN <<>>
    ELSE GroupHits(Head(availableZones).ZoneId, Head(availableZones).ResourcesInfo, id)
         \o ZonesOf(id, Tail(availableZones))

\* lines 157-181: the VMInfo of an instance type with the given zones
VMInfoOf(it, zones) ==
    LET ntwPerf == FormatGbit(it.InstanceBandwidthRx)
        ntwPerfCat == MapNetworkPerf(ntwPerf).cat
        category == mapCategory(it).cat
    IN [Category |-> category, Type |-> it.InstanceTypeId, OnDemandPrice |-> 0,
        Cpus |-> it.CpuCoreCount, Mem |-> it.MemorySize, Gpus |-> it.GPUAmount,
        NtwPerf |-> ntwPerf, NtwPerfCat |-> ntwPerfCat, Zones |-> zones,
        Attributes |-> Attributes(it.CpuCoreCount, it.MemorySize, ntwPerfCat, category)]

\* lines 144-183: the loop over the instance types
RECURSIVE ListVMs(_, _)
ListVMs(its, availableZones) ==
    IF its = <<>> THEN <<>>
    ELSE LET zones == ZonesOf(Head(its).InstanceTypeId, availableZones)
         IN (IF Len(zones) > 0 THEN <<VMInfoOf(Head(its), zones)>> ELSE <<>>)
            \o ListVMs(Tail(its), availableZones)

\* -------------------------------------------------------------- getPrice
\* provider error codes of a price response with Success = false
Codes == {"InvalidParameter", "InternalError"}

\* what ProcessCommonRequest hands back for a GetPayAsYouGoPrice request
RawResponse(kind, success, code, costs) ==
    [kind |-> kind, Success |-> success, Code |-> code, costs |-> costs]

\* the numbers of module details a successful response to a request for len
\* instance types may carry
PriceCounts(len) == {0} \cup {k \in (len - MaxDelta)..(len + MaxDelta) : k >= 0}

\* the OriginalCost of the i-th module detail of a response to a request
\* for types: the provider charges t for instance type t
OriginalCost(types, i) == IF i <= Len(types) THEN types[i] ELSE i

\* the provider's possible answers to a price request for types
PriceResponses(types) ==
    {RawResponse("transport", FALSE, "", <<>>), RawResponse("undecodable", FALSE, "", <<>>)}
    \cup {RawResponse("body", FALSE, c, <<>>) : c \in Codes}
    \cup {RawResponse("body", TRUE, "", [i \in 1..k |-> OriginalCost(types, i)]) :
             k \in PriceCounts(Len(types))}

\* lines 289-312
getPrice(raw) ==
    IF raw.kind = "transport" THEN [prices |-> <<>>, err |-> NewErr("SDK.ServerError")]
    ELSE IF raw.kind = "undecodable" THEN [prices |-> <<>>, err |-> NewErr("json: cannot unmarshal")]
    ELSE IF ~raw.Success THEN [prices |-> <<>>, err |-> With(NewErr("failed to get price"), raw.Code)]
    ELSE [prices |-> raw.costs, err |-> NoErr]

\* ------------------------------------------------------- getOnDemandPrice
\* the rejection test without the label check: every provider failure retries
IsParameterRejectionAnyCode(e) == e.msg = "failed to get price"

\* line 249: the batch was rejected for an identifiable parameter problem
IsParameterRejection(e) ==
    e.msg = "failed to get price" /\ hasLabel(e.ctx, "InvalidParameter")

\* the send test without the end-of-list case: a trailing short batch is lost
BatchDueFullOnly(len, idx, n) == len = BatchSize

\* line 246: the collected batch (len types, loop index idx, 0-based) is sent
BatchDue(len, idx, n) == len = BatchSize \/ idx + 1 = n

\* the 1-based positions at which the loop, having consumed from types, sends
HasDue(from, n) == \E j \in (from + 1)..n : BatchDue(j - from, j - 1, n)

BatchEnd(from, n) ==
    CHOOSE j \in (from + 1)..n :
        /\ BatchDue(j - from, j - 1, n)
        /\ \A k \in (from + 1)..(j - 1) : ~BatchDue(k - from, k - 1, n)

\* lines 262-264 (and 256): allPrices[types[i]] = prices[i] for the first k
SetPrices(ap, types, ps, k) ==
    [t \in DOMAIN ap \cup {types[i] : i \in 1..k} |->
        IF \E i \in 1..k : types[i] = t
        THEN ps[CHOOSE i \in 1..k : types[i] = t /\ \A j \in (i + 1)..k : types[j] # t]
        ELSE ap[t]]

\* line 275: allPrices[vm.Type], the zero value for a missing key
PriceLookup(ap, t) == IF t \in DOMAIN ap THEN ap[t] ELSE 0

\* lines 271-286
WithPrices(vmList, ap) ==
    [i \in 1..Len(vmList) |->
        [vmList[i] EXCEPT !.OnDemandPrice = PriceLookup(ap, vmList[i].Type)]]

\* ------------------------------------------------------------ GetProducts
Services == {"ack", "compute", "eks"}

\* lines 205-214
ServiceSwitch(svc, vmList) ==
    IF svc = "ack" \/ svc = "compute"
    THEN [nil |-> FALSE, vms |-> vmList, err |-> NoErr]
    ELSE [nil |-> TRUE, vms |-> <<>>, err |-> Wrap(NewErr(svc), "invalid service")]

\* what the called method returns once GetVirtualMachines has (vmList, e):
\* lines 185-191 for GetVirtualMachines, lines 199-214 for GetProducts
Outcome(method, svc, vmList, e) ==
    IF e # NoErr
    THEN [nil |-> TRUE, vms |-> <<>>,
          err |-> IF method = "GetProducts" THEN Wrap(e, "failed to get products") ELSE e]
    ELSE IF method = "GetProducts" THEN ServiceSwitch(svc, vmList)
    ELSE [nil |-> FALSE, vms |-> vmList, err |-> NoErr]

Return(vmList, e) ==
    LET r == Outcome(op, service, vmList, e)
    IN /\ pc' = "done"
       /\ resultNil' = r.nil
       /\ result' = r.vms
       /\ err' = r.err

\* a runtime panic (index out of range) unwinds every caller
Panic ==
    /\ pc' = "panic"
    /\ err' = NewErr("index out of range")
    /\ UNCHANGED <<resultNil, result>>

\* a request as the history records it: what was asked and the error the
\* caller got for it (NoErr for an answer it could use; for a single-item
\* retry, whose error is only logged at line 253, the logged message)
Request(kind, types, e) == [kind |-> kind, types |-> types, err |-> e]

\* the error of a Describe* call: lines 115-116 / 219-220 wrap the SDK's
\* error, lines 121-124 / 225-228 pass the decoding error on
DescribeErr(r, problem) ==
    IF r = "transport" THEN Wrap(NewErr("SDK.ServerError"), problem)
    ELSE IF r = "undecodable" THEN NewErr("json: cannot unmarshal")
    ELSE NoErr

\* a VM list a caller of GetProducts may pass in
SampleVMs == <<VMInfoOf(InstanceType(1, BandwidthUnit, "g"), <<1>>)>>

\* ------------------------------------------------------------------- Init
\* nothing has been called yet
Idle ==
    /\ op = ""
    /\ service = ""
    /\ pc = "idle"
    /\ vms = <<>>
    /\ index = 0
    /\ instanceTypes = <<>>
    /\ retryIdx = 0
    /\ allPrices = <<>>
    /\ skipped = {}
    /\ log = <<>>
    /\ resultNil = TRUE
    /\ result = <<>>
    /\ err = NoErr
    /\ shortLived = FALSE

\* the spot price retrieval is not running
NoSpot ==
    /\ spotZones = <<>>
    /\ zi = 0
    /\ ti = 0
    /\ priceInfo = <<>>
    /\ history = {}
    /\ prices = <<>>

\* a provider with a uniform catalog
Init ==
    /\ Idle
    /\ NoSpot
    /\ \E c \in UniformCatalogs :
          /\ catalog = c.types
          /\ zoneCfg = c.zones

\* the same, for the small catalogs with varied types and zones
InitVM ==
    /\ Idle
    /\ NoSpot
    /\ \E c \in VariedCatalogs :
          /\ catalog = c.types
          /\ zoneCfg = c.zones

\* ---------------------------------------------------------------- actions
\* line 129: GetVirtualMachines(region) is called
CallGetVirtualMachines ==
    /\ pc = "idle"
    /\ op' = "GetVirtualMachines"
    /\ pc' = "getInstanceTypes"
    /\ UNCHANGED <<demandVars, shortLived, spotVars>>

\* lines 195-215: GetProducts(vms, service, regionId) is called; a non-empty
\* list goes straight to the switch on the service
CallGetProducts ==
    /\ pc = "idle"
    /\ op' = "GetProducts"
    /\ \E v \in {<<>>, SampleVMs}, s \in Services :
          /\ service' = s
          /\ IF Len(v) = 0
             THEN /\ pc' = "getInstanceTypes"
                  /\ UNCHANGED <<resultNil, result, err>>
             ELSE LET r == ServiceSwitch(s, v)
                  IN /\ pc' = "done"
                     /\ resultNil' = r.nil
                     /\ result' = r.vms
                     /\ err' = r.err
    /\ UNCHANGED <<catalog, zoneCfg, vms, index, instanceTypes, retryIdx,
                   allPrices, skipped, log, shortLived, spotVars>>

\* lines 134-137 with getInstanceTypes, lines 217-231
GetInstanceTypes ==
    /\ pc = "getInstanceTypes"
    /\ \E r \in {"ok", "transport", "undecodable"} :
          LET e == DescribeErr(r, "DescribeInstanceTypes API call problem")
          IN /\ log' = Append(log, Request("DescribeInstanceTypes", <<>>, e))
             /\ IF e # NoErr
                THEN Return(<<>>, e)
                ELSE /\ pc' = "getZones"
                     /\ UNCHANGED <<resultNil, result, err>>
    /\ UNCHANGED <<op, service, catalog, zoneCfg, vms, index, instanceTypes,
                   retryIdx, allPrices, skipped, shortLived, spotVars>>

\* lines 139-183 with getZones, lines 113-127: the zones, then the VM list
GetZones ==
    /\ pc = "getZones"
    /\ \E r \in {"ok", "transport", "undecodable"} :
          LET e == DescribeErr(r, "DescribeZones API call problem")
          IN /\ log' = Append(log, Request("DescribeZones", <<>>, e))
             /\ IF e # NoErr
                THEN /\ Return(<<>>, e)
                     /\ UNCHANGED vms
                ELSE /\ vms' = ListVMs(catalog, zoneCfg)
                     /\ pc' = "price"
                     /\ UNCHANGED <<resultNil, result, err>>
    /\ UNCHANGED <<op, service, catalog, zoneCfg, index, instanceTypes,
                   retryIdx, allPrices, skipped, shortLived, spotVars>>

\* lines 243-269: the loop runs up to the next batch request and handles its answer
BatchPrice ==
    /\ pc = "price"
    /\ HasDue(index, Len(vms))
    /\ LET e == BatchEnd(index, Len(vms))
           batch == [i \in 1..(e - index) |-> vms[index + i].Type]
       IN \E raw \in PriceResponses(batch) :
            LET r == getPrice(raw)
            IN IF r.err # NoErr
               THEN IF IsParameterRejection(r.err)
                    THEN /\ log' = Append(log, Request("batch", batch, r.err))
                         /\ pc' = "retry"
                         /\ instanceTypes' = batch
                         /\ retryIdx' = 1
                         /\ UNCHANGED <<index, allPrices, resultNil, result, err>>
                    ELSE /\ log' = Append(log, Request("batch", batch, r.err))
                         /\ Return(<<>>, r.err)
                         /\ instanceTypes' = batch
                         /\ UNCHANGED <<index, allPrices, retryIdx>>
               ELSE /\ log' = Append(log, Request("batch", batch, NoErr))
                    /\ IF Len(r.prices) > Len(batch)
                       THEN /\ allPrices' = SetPrices(allPrices, batch, r.prices, Len(batch))
                            /\ instanceTypes' = batch
                            /\ Panic
                            /\ UNCHANGED <<index, retryIdx>>
                       ELSE /\ allPrices' = SetPrices(allPrices, batch, r.prices, Len(r.prices))
                            /\ index' = e
                            /\ instanceTypes' = <<>>
                            /\ UNCHANGED <<pc, retryIdx, resultNil, result, err>>
    /\ UNCHANGED <<op, service, catalog, zoneCfg, vms, skipped, shortLived,
                   spotVars>>

\* lines 250-257: one iteration of the single-item retry loop
SinglePrice ==
    /\ pc = "retry"
    /\ LET t == instanceTypes[retryIdx]
           last == retryIdx = Len(instanceTypes)
       IN \E raw \in PriceResponses(<<t>>) :
            LET r == getPrice(raw)
            IN /\ r.err # NoErr => Cardinality(skipped) < MaxSkips
               /\ log' = Append(log, Request("single", <<t>>,
                        IF r.err # NoErr THEN NewErr("no price for instance type") ELSE NoErr))
               /\ IF r.err = NoErr /\ Len(r.prices) = 0
                  THEN /\ Panic
                       /\ UNCHANGED <<index, instanceTypes, retryIdx, allPrices, skipped>>
                  ELSE /\ IF r.err # NoErr
                          THEN /\ skipped' = skipped \cup {t}
                               /\ UNCHANGED allPrices
                          ELSE /\ allPrices' = SetPrices(allPrices, <<t>>, r.prices, 1)
                               /\ UNCHANGED skipped
                       /\ IF last
                          THEN /\ pc' = "price"
                               /\ index' = index + Len(instanceTypes)
                               /\ instanceTypes' = <<>>
                               /\ retryIdx' = 0
                          ELSE /\ retryIdx' = retryIdx + 1
                               /\ UNCHANGED <<pc, index, instanceTypes>>
                       /\ UNCHANGED <<resultNil, result, err>>
    /\ UNCHANGED <<op, service, catalog, zoneCfg, vms, shortLived, spotVars>>

\* lines 271-286, then the callers' returns
ReturnPrices ==
    /\ pc = "price"
    /\ ~HasDue(index, Len(vms))
    /\ Return(WithPrices(vms, allPrices), NoErr)
    /\ UNCHANGED <<op, service, catalog, zoneCfg, vms, index, instanceTypes,
                   retryIdx, allPrices, skipped, log, shortLived, spotVars>>

\* lines 360-363
HasShortLivedPriceInfo == FALSE

CallHasShortLivedPriceInfo ==
    /\ pc = "idle"
    /\ op' = "HasShortLivedPriceInfo"
    /\ shortLived' = HasShortLivedPriceInfo
    /\ pc' = "done"
    /\ UNCHANGED <<demandVars, spotVars>>

Next ==
    \/ CallGetVirtualMachines
    \/ CallGetProducts
    \/ CallHasShortLivedPriceInfo
    \/ GetInstanceTypes
    \/ GetZones
    \/ BatchPrice
    \/ SinglePrice
    \/ ReturnPrices

Spec == Init /\ [][Next]_vars

SpecVM == InitVM /\ [][Next]_vars

\* ------------------------------------------------- getCurrentSpotPrices
\* the zones and instance types of the spot price model
SpotZoneIds == {1, 2}

SpotTypes == {1, 2}

\* AvailableInstanceTypes.InstanceTypes of a zone
SpotLists == {<<>>} \cup {<<t>> : t \in SpotTypes}
             \cup {<<t, u>> : t, u \in SpotTypes}

\* the zone lists DescribeZones may return: zones 1 and 2, in this order
SpotZoneCfgs ==
    {<<Zone(1, <<>>, a), Zone(2, <<>>, b)>> : a, b \in SpotLists}

\* the spot price the provider quotes for an instance type in a zone
SpotPriceOf(t, z) == 10 * t + z

\* ecs.SpotPriceType
SpotPriceType(t, z) == [ZoneId |-> z, SpotPrice |-> SpotPriceOf(t, z)]

\* the SpotPrices.SpotPriceType lists a DescribeSpotPriceHistory response
\* for instance type t may carry
SpotResponses(t) ==
    UNION {[1..k -> {SpotPriceType(t, z) : z \in SpotZoneIds}] : k \in 0..MaxEntries}

\* position of the first entry of the response that is for the zone, 0 if none
FirstMatch(entries, zoneId) ==
    IF \E i \in 1..Len(entries) : entries[i].ZoneId = zoneId
    THEN CHOOSE i \in 1..Len(entries) :
            /\ entries[i].ZoneId = zoneId
            /\ \A j \in 1..(i - 1) : entries[j].ZoneId # zoneId
    ELSE 0

\* lines 96-105: priceInfo after the loop over the entries of a response.
\* spotPrice is a fresh map; every entry before the first one for the zone
\* stores that map in priceInfo[instanceType]; the entry for the zone writes
\* the price into the map (seen through priceInfo, which holds the same map)
\* and leaves the loop
StoreSpotPrice(pi, t, zoneId, entries) ==
    LET m == FirstMatch(entries, zoneId)
        stored == IF m = 0 THEN Len(entries) > 0 ELSE m > 1
        spotPrice == IF m = 0 THEN <<>> ELSE [z \in {zoneId} |-> entries[m].SpotPrice]
    IN IF stored
       THEN [u \in DOMAIN pi \cup {t} |-> IF u = t THEN spotPrice ELSE pi[u]]
       ELSE pi

\* lines 80-82: the next (zone, instance type) of the loops, from (z, t) on,
\* for which priceInfo[instanceType] == nil; z = Len(zones) + 1 at the end
RECURSIVE NextPos(_, _, _, _)
NextPos(zones, pi, z, t) ==
    IF z > Len(zones) THEN [z |-> z, t |-> 1]
    ELSE IF t > Len(zones[z].AvailableInstanceTypes) THEN NextPos(zones, pi, z + 1, 1)
    ELSE IF zones[z].AvailableInstanceTypes[t] \in DOMAIN pi THEN NextPos(zones, pi, z, t + 1)
    ELSE [z |-> z, t |-> t]

\* lines 375-384
PricesOf(spotPrices) ==
    [t \in DOMAIN spotPrices |-> [SpotPrice |-> spotPrices[t], OnDemandPrice |-> -1]]

\* a provider whose zones list the instance types available for spot requests
InitSpot ==
    /\ Idle
    /\ NoSpot
    /\ catalog = <<>>
    /\ zoneCfg \in SpotZoneCfgs

\* line 366: GetCurrentPrices(region) is called
CallGetCurrentPrices ==
    /\ pc = "idle"
    /\ op' = "GetCurrentPrices"
    /\ pc' = "spotZones"
    /\ UNCHANGED <<demandVars, shortLived, spotVars>>

\* lines 75-78 with getZones, lines 113-127
SpotGetZones ==
    /\ pc = "spotZones"
    /\ \E r \in {"ok", "transport", "undecodable"} :
          LET e == DescribeErr(r, "DescribeZones API call problem")
          IN /\ log' = Append(log, Request("DescribeZones", <<>>, e))
             /\ IF e = NoErr
                THEN /\ spotZones' = zoneCfg
                     /\ zi' = NextPos(zoneCfg, priceInfo, 1, 1).z
                     /\ ti' = NextPos(zoneCfg, priceInfo, 1, 1).t
                     /\ pc' = "spot"
                     /\ UNCHANGED err
                ELSE /\ err' = e
                     /\ pc' = "done"
                     /\ UNCHANGED <<spotZones, zi, ti>>
    /\ UNCHANGED <<op, service, catalog, zoneCfg, vms, index, instanceTypes, retryIdx,
                   allPrices, skipped, resultNil, result, shortLived, priceInfo,
                   history, prices>>

\* lines 80-107: the loops run up to the next price history request and
\* handle its answer
SpotPriceHistory ==
    /\ pc = "spot"
    /\ zi <= Len(spotZones)
    /\ LET zone == spotZones[zi]
           t == zone.AvailableInstanceTypes[ti]
       IN /\ \E r \in {"ok", "transport", "undecodable"} :
               /\ log' = Append(log, Request("DescribeSpotPriceHistory", <<t>>,
                                             DescribeErr(r, "")))
               /\ IF r = "undecodable"
                  THEN /\ err' = NewErr("json: cannot unmarshal")
                       /\ pc' = "done"
                       /\ UNCHANGED <<zi, ti, priceInfo, history>>
                  ELSE /\ IF r = "transport"
                          THEN UNCHANGED <<priceInfo, history>>
                          ELSE \E entries \in SpotResponses(t) :
                                 /\ history' = history \cup
                                        {[zone |-> zone.ZoneId, type |-> t, entries |-> entries]}
                                 /\ priceInfo' = StoreSpotPrice(priceInfo, t, zone.ZoneId, entries)
                       /\ zi' = NextPos(spotZones, priceInfo', zi, ti + 1).z
                       /\ ti' = NextPos(spotZones, priceInfo', zi, ti + 1).t
                       /\ UNCHANGED <<pc, err>>
    /\ UNCHANGED <<op, service, catalog, zoneCfg, vms, index, instanceTypes, retryIdx,
                   allPrices, skipped, resultNil, result, shortLived, spotZones, prices>>

\* lines 109-110 and 375-386
SpotReturn ==
    /\ pc = "spot"
    /\ zi > Len(spotZones)
    /\ prices' = PricesOf(priceInfo)
    /\ pc' = "done"
    /\ UNCHANGED <<op, demandVars, shortLived, spotZones, zi, ti, priceInfo, history>>

NextSpot ==
    \/ CallGetCurrentPrices
    \/ CallHasShortLivedPriceInfo
    \/ SpotGetZones
    \/ SpotPriceHistory
    \/ SpotReturn

SpecSpot == InitSpot /\ [][NextSpot]_vars

\* ================================================================ claims
\* the price requests for whole batches, in the order issued
BatchRequests == SelectSeq(log, LAMBDA r : r.kind = "batch")

\* all price requests, in the order issued
PriceRequests == SelectSeq(log, LAMBDA r : r.kind = "batch" \/ r.kind = "single")

CeilDiv(n, d) == (n + d - 1) \div d

Min(a, b) == IF a <= b THEN a ELSE b

\* the instance types of the k-th run of 25 consecutive input positions
\* (the last run may be shorter)
ExpectedBatch(k) ==
    [i \in 1..(Min(25 * k, Len(vms)) - 25 * (k - 1)) |-> vms[25 * (k - 1) + i].Type]

\* GetVirtualMachines / GetProducts got as far as getOnDemandPrice
PriceFetchStarted ==
    /\ op \in {"GetVirtualMachines", "GetProducts"}
    /\ \E j \in 1..Len(log) : log[j].kind = "DescribeZones" /\ log[j].err = NoErr

\* ... and getOnDemandPrice returned its VM list
PriceFetchSucceeded ==
    /\ PriceFetchStarted
    /\ pc = "done"
    /\ \A j \in 1..Len(log) : log[j].kind = "batch" =>
          (log[j].err = NoErr \/ (log[j].err.msg = "failed to get price"
                                  /\ SeqContains(log[j].err.ctx, "InvalidParameter")))

\* the error is the parameter rejection of the provider, as the claims word it
RejectedForParameter(e) ==
    e.msg = "failed to get price" /\ SeqContains(e.ctx, "InvalidParameter")

\* C1 (as stated): once getOnDemandPrice has returned, it has issued exactly
\* ceil(n/25) batch price requests, the k-th carrying the k-th run of 25
\* consecutive instance types of the input (the last run possibly shorter).
C1_ExactlyCeilBatches ==
    (PriceFetchStarted /\ pc = "done") =>
        /\ Len(BatchRequests) = CeilDiv(Len(vms), 25)
        /\ \A k \in 1..Len(BatchRequests) : BatchRequests[k].types = ExpectedBatch(k)

\* C1 (amended): the batch price requests issued so far are, in order, the
\* leading runs of the partition of the input into consecutive runs of 25
\* (so each carries 1..25 types, all but the last of the input exactly 25, and
\* no position is in two batches); there are never more than ceil(n/25) of
\* them, and exactly ceil(n/25) once getOnDemandPrice has returned its VM list
\* (none for n = 0).
C1_BatchesArePartitionPrefix ==
    /\ Len(BatchRequests) <= CeilDiv(Len(vms), 25)
    /\ \A k \in 1..Len(BatchRequests) :
          /\ BatchRequests[k].types = ExpectedBatch(k)
          /\ Len(BatchRequests[k].types) \in 1..25
          /\ k < CeilDiv(Len(vms), 25) => Len(BatchRequests[k].types) = 25
    /\ PriceFetchSucceeded => Len(BatchRequests) = CeilDiv(Len(vms), 25)
    /\ (PriceFetchStarted /\ Len(vms) = 0) => Len(PriceRequests) = 0

\* C1 witness: a list of 26 VMs was priced with a batch of 25 and a batch of 1
C1_Witness ==
    /\ PriceFetchSucceeded
    /\ Len(vms) = 26
    /\ Len(BatchRequests) = 2
    /\ Len(BatchRequests[1].types) = 25
    /\ Len(BatchRequests[2].types) = 1

\* C2: after a batch request rejected with 'failed to get price' labelled
\* InvalidParameter, the next len(batch) requests are single-item requests for
\* the types of the batch, in order; each has recorded a price or been
\* skipped; and the fetch does not end before all of them were issued.
C2_RetryEveryItem ==
    \A j \in 1..Len(log) :
        (log[j].kind = "batch" /\ RejectedForParameter(log[j].err)) =>
            LET batch == log[j].types
            IN /\ \A i \in 1..Len(batch) :
                    j + i <= Len(log) =>
                        /\ log[j + i].kind = "single"
                        /\ log[j + i].types = <<batch[i]>>
                        /\ (batch[i] \in DOMAIN allPrices \/ batch[i] \in skipped)
               /\ pc \in {"done", "panic"} => Len(log) >= j + Len(batch)

\* C3: a batch request that failed with an error other than the parameter
\* rejection is the last request issued; the call has returned nil and that
\* error (GetProducts wraps it), whatever earlier batches had priced.
C3_OtherErrorAborts ==
    \A j \in 1..Len(log) :
        (log[j].kind = "batch" /\ log[j].err # NoErr /\ ~RejectedForParameter(log[j].err)) =>
            /\ j = Len(log)
            /\ pc = "done"
            /\ resultNil
            /\ result = <<>>
            /\ op = "GetVirtualMachines" => err = log[j].err
            /\ op = "GetProducts" => err.cause = log[j].err.msg

\* C3 witness: the second batch failed with a provider failure that is not
\* InvalidParameter, after the first batch had been priced
C3_Witness ==
    /\ op = "GetVirtualMachines"
    /\ Len(BatchRequests) = 2
    /\ log[Len(log)].kind = "batch"
    /\ log[Len(log)].err.ctx = <<"InternalError">>
    /\ DOMAIN allPrices # {}
    /\ pc = "done"

\* C4: in the list a successful fetch returns, every VM has a price in the
\* price map: an instance type that could not be priced is not in the list.
C4_UnpricedAbsent ==
    (PriceFetchSucceeded /\ err = NoErr) =>
        \A i \in 1..Len(result) : result[i].Type \in DOMAIN allPrices

\* C5: after a fetch of a non-empty list that completed without error, the
\* priced instance types are the input types minus those whose single-item
\* retry failed.
C5_PricedSet ==
    (PriceFetchSucceeded /\ err = NoErr /\ Len(vms) > 0) =>
        DOMAIN allPrices = {vms[i].Type : i \in 1..Len(vms)} \ skipped

\* C6: every (zone, price) entry of a price history response received for an
\* instance type the zone offers is in the map GetCurrentPrices returns.
C6_EveryZonePrice ==
    (op = "GetCurrentPrices" /\ pc = "done" /\ err = NoErr) =>
        \A h \in history : \A z \in 1..Len(spotZones) : \A i \in 1..Len(h.entries) :
            (SeqContains(spotZones[z].AvailableInstanceTypes, h.type)
             /\ h.entries[i].ZoneId = spotZones[z].ZoneId) =>
                /\ h.type \in DOMAIN prices
                /\ h.entries[i].ZoneId \in DOMAIN prices[h.type].SpotPrice
                /\ prices[h.type].SpotPrice[h.entries[i].ZoneId] = h.entries[i].SpotPrice

\* C7: an instance type offered by some zone whose network performance or
\* category cannot be mapped is listed by GetVirtualMachines with a non-empty
\* network tier, in NtwPerfCat and in the networkPerfTier attribute.
C7_DefaultTier ==
    (op = "GetVirtualMachines" /\ pc = "done" /\ err = NoErr) =>
        \A c \in 1..Len(catalog) :
            (/\ Len(ZonesOf(catalog[c].InstanceTypeId, zoneCfg)) > 0
             /\ \/ MapNetworkPerf(FormatGbit(catalog[c].InstanceBandwidthRx)).err # NoErr
                \/ mapCategory(catalog[c]).err # NoErr) =>
                \E i \in 1..Len(result) :
                    /\ result[i].Type = catalog[c].InstanceTypeId
                    /\ result[i].NtwPerfCat # ""
                    /\ result[i].Attributes.networkPerfTier # ""

\* C8: GetProducts for a service other than ack and compute issues no
\* provider request and returns nil with the 'invalid service' error.
C8_UnsupportedServiceImmediately ==
    (op = "GetProducts" /\ service \notin {"ack", "compute"}) =>
        /\ log = <<>>
        /\ pc = "done" => (resultNil /\ err.msg = "invalid service")

\* C9: HasShortLivedPriceInfo returns true.
C9_ShortLived ==
    (op = "HasShortLivedPriceInfo" /\ pc = "done") => shortLived = TRUE

\* C10: getOnDemandPrice never indexes a list outside its bounds (the call
\* never ends in the runtime's index-out-of-range panic).
C10_NoOutOfBounds == pc # "panic"

\* the Zones list of a VMInfo is non-empty and names only zones of the region
\* that list the instance type as supported in some resource-info group
ZonesSupported(vm) ==
    /\ Len(vm.Zones) > 0
    /\ \A k \in 1..Len(vm.Zones) :
          \E z \in 1..Len(zoneCfg) :
              /\ zoneCfg[z].ZoneId = vm.Zones[k]
              /\ \E g \in 1..Len(zoneCfg[z].ResourcesInfo) :
                    SeqContains(zoneCfg[z].ResourcesInfo[g], vm.Type)

\* C11: in every VMInfo GetVirtualMachines returns, the Zones list is
\* non-empty, names only zones of the region that list the instance type as
\* supported, and names each zone id at most once.
C11_ZonesOncePerZone ==
    (op = "GetVirtualMachines" /\ pc = "done" /\ err = NoErr) =>
        \A i \in 1..Len(result) :
            /\ ZonesSupported(result[i])
            /\ \A k, l \in 1..Len(result[i].Zones) :
                  result[i].Zones[k] = result[i].Zones[l] => k = l

====
